---- MODULE Spec2Model ----
(***************************************************************************)
(* State-machine model of the browser paint tool in src/src/main.ts: the   *)
(* drawing model (commands / redoStack), the draggable commands it holds,  *)
(* the tool selection, the interaction state and the hover preview, driven *)
(* by the DOM event listeners registered in main().                        *)
(*                                                                         *)
(* A command object is a closure over its own points / current position.   *)
(* The model writes an object as [id, state]: id is its identity (its      *)
(* creation number, counted by `created`) and state the closure's          *)
(* variables.  The arrays commands and redoStack hold these objects; an    *)
(* object that no array holds any more is unreachable and is not kept.     *)
(*                                                                         *)
(* canvas.dispatchEvent is synchronous: the render listener runs inside    *)
(* the handler that dispatches, on the model as it is at that moment.      *)
(* `canvas` is what is painted on the surface (the calls since the last    *)
(* clearRect), `dispatched` the notifications of the latest handled event  *)
(* with the calls their render issued, `input` that event's input, and     *)
(* `gesture` the points of an uninterrupted press-move-release gesture.    *)
(***************************************************************************)
EXTENDS Integers, Sequences, FiniteSets, TLC

VARIABLES commands, redoStack, created, isDrawing, activeTool, previewState,
          buttons, lastEvent, snap, canvas, context, dispatched, input,
          gesture

vars == <<commands, redoStack, created, isDrawing, activeTool, previewState,
          buttons, lastEvent, snap, canvas, context, dispatched, input,
          gesture>>

(* ------------------------------ bounds -------------------------------- *)

\* Number of command objects created (presses handled) in one behaviour.
MaxCmds == 3

\* Number of points that drags may add to the marker lines the model holds.
MaxDrags == 2

\* Number of moves of the gesture that starts from an empty model.
MaxMoves == 2

(* ------------------------- program constants -------------------------- *)

THIN_MARKER_THICKNESS == 4

THICK_MARKER_THICKNESS == 10

STICKER_OPTIONS == {"flower", "balloon", "star"}

(* ------------------------------ inputs -------------------------------- *)

\* canvas.getBoundingClientRect() of the laid-out canvas.
CanvasBounds == [left |-> 8, top |-> 60]

\* Mouse events, by the client coordinates the browser reports: presses
\* land on canvas point (10,10), moves on (20,10); the moves of the gesture
\* that starts from an empty model land on (20,10) or (20,20).
PressEvents == {[clientX |-> 18, clientY |-> 70]}

MoveEvents == {[clientX |-> 28, clientY |-> 70]}

GestureMoveEvents == MoveEvents \cup {[clientX |-> 28, clientY |-> 80]}

toCanvasPoint(bounds, event) ==
    [x |-> event.clientX - bounds.left, y |-> event.clientY - bounds.top]

ThinTool == [type |-> "marker", thickness |-> THIN_MARKER_THICKNESS]

ThickTool == [type |-> "marker", thickness |-> THICK_MARKER_THICKNESS]

StickerTools == {[type |-> "sticker", emoji |-> e] : e \in STICKER_OPTIONS}

\* One tool per button of the tool column.
ToolButtons == {ThinTool, ThickTool} \cup StickerTools

\* The tool buttons clicked in one session: the two markers, or the thin
\* marker and one sticker (the sticker buttons share one listener).
ClickedStickers == {"star"}

Sessions == {{ThinTool, ThickTool}}
              \cup {{ThinTool, t} : t \in {u \in StickerTools :
                                               u.emoji \in ClickedStickers}}

(* ------------------------- command factories -------------------------- *)

createMarkerLine(initialPoint, thickness) ==
    [kind |-> "marker", points |-> <<initialPoint>>, thickness |-> thickness]

createStickerCommand(emoji, point) ==
    [kind |-> "sticker", emoji |-> emoji, current |-> point]

\* A drag that keeps the latest point only.
MarkerDrag_overwrite(c, x, y) ==
    [c EXCEPT !.points = <<[x |-> x, y |-> y]>>]

\* A drag that puts the point in front (unshift in place of push).
MarkerDrag_unshift(c, x, y) ==
    [c EXCEPT !.points = <<[x |-> x, y |-> y]>> \o @]

\* MarkerLine.drag: points.push({x, y})
MarkerDrag(c, x, y) ==
    [c EXCEPT !.points = Append(@, [x |-> x, y |-> y])]

\* A sticker that stays where it was placed.
StickerDrag_ignored(c, x, y) == c

\* Sticker drag: current = {x, y}
StickerDrag(c, x, y) ==
    [c EXCEPT !.current = [x |-> x, y |-> y]]

\* Dynamic dispatch of command.drag(x, y).
drag(c, x, y) ==
    IF c.kind = "marker" THEN MarkerDrag(c, x, y) ELSE StickerDrag(c, x, y)

(* ------------------------------ preview ------------------------------- *)

NoPreview == [kind |-> "none"]

createToolPreviewState == NoPreview

createMarkerPreview(point, thickness) ==
    [kind |-> "markerPreview", point |-> point, thickness |-> thickness]

createStickerPreview(emoji, point) ==
    [kind |-> "stickerPreview", emoji |-> emoji, point |-> point]

(* ------------------------------ helpers ------------------------------- *)

\* A reference to a command object: its identity and the closure's state.
Object(id, state) == [id |-> id, state |-> state]

Last(s) == s[Len(s)]

RECURSIVE Dragged(_)
\* Number of points the marker lines of an array recorded after their first.
Dragged(arr) ==
    IF arr = <<>> THEN 0
    ELSE (IF Last(arr).state.kind = "marker"
          THEN Len(Last(arr).state.points) - 1 ELSE 0)
         + Dragged(SubSeq(arr, 1, Len(arr) - 1))

Front(s) == SubSeq(s, 1, Len(s) - 1)

\* A truncation that was left out.
truncate_omitted(arr) == arr

\* arr.length = 0
truncate(arr) == <<>>

\* arr.push(e)
push(arr, e) == Append(arr, e)

\* shift() in place of pop(): the first element goes, not the last.
popped_shift(arr) == SubSeq(arr, 2, Len(arr))

\* A read of the last element in place of pop(): nothing is removed.
popped_peek(arr) == arr

\* arr after arr.pop(), which removes the last element and returns it.
popped(arr) == Front(arr)

\* The two arrays of the drawing model.
Model(cs, rs) == [commands |-> cs, redoStack |-> rs]

Snapshot(before, redone) == [before |-> before, redone |-> redone]

\* What the handler of the latest event did: which listener ran, whether it
\* raised, the identity of the command it called drag on (0: none), and how
\* many objects it dropped from the model by truncating an array.
Event(op, threw, target, dropped) ==
    [op |-> op, threw |-> threw, target |-> target, dropped |-> dropped]

Handled(op, threw, target, dropped) ==
    lastEvent' = Event(op, threw, target, dropped)

(* --------------------------- render pipeline -------------------------- *)

DRAWING_CHANGED_EVENT == "drawing-changed"

TOOL_MOVED_EVENT == "tool-moved"

\* The drawing state of a new 2d context that the listeners read or write:
\* globalAlpha (in hundredths) and lineWidth.
getContext == [globalAlpha |-> 100, lineWidth |-> 1]

\* context.save() pushes a copy of the drawing state; context.restore()
\* makes the copy pushed last the drawing state again.
save(ctx) == ctx

restore(saved, ctx) == saved

\* context.clearRect(0, 0, canvas.width, canvas.height)
clearRect == [op |-> "clearRect"]

\* A display that strokes nothing for a line of one point.
MarkerDisplay_skipsDot(ctx, id, c) ==
    IF Len(c.points) <= 1 THEN <<>>
    ELSE <<[op |-> "stroke", by |-> id, path |-> c.points,
            lineWidth |-> c.thickness, alpha |-> ctx.globalAlpha]>>

\* MarkerLine.display, the calls it paints with, each tagged with the
\* identity of the object that issued it and the drawing state it is painted
\* under: nothing for no points; else, at lineWidth = thickness, one stroked
\* path (moveTo the first point and lineTo each further one, or lineTo the
\* first point again when it is the only one).
MarkerDisplay(ctx, id, c) ==
    IF Len(c.points) = 0 THEN <<>>
    ELSE <<[op |-> "stroke", by |-> id,
            path |-> IF Len(c.points) = 1
                     THEN <<c.points[1], c.points[1]>> ELSE c.points,
            lineWidth |-> c.thickness, alpha |-> ctx.globalAlpha]>>

\* MarkerLine.display, the drawing state it leaves: what it set between
\* save() and restore() is undone.
MarkerDisplayed(ctx, c) ==
    IF Len(c.points) = 0 THEN ctx
    ELSE restore(save(ctx), [ctx EXCEPT !.lineWidth = c.thickness])

\* Sticker display: fillText(emoji, current.x, current.y) under the
\* globalAlpha the context has.
StickerDisplay(ctx, id, c) ==
    <<[op |-> "fillText", by |-> id, text |-> c.emoji, at |-> c.current,
       alpha |-> ctx.globalAlpha]>>

\* Sticker display sets font and alignment only, between save() and
\* restore().
StickerDisplayed(ctx, c) == restore(save(ctx), ctx)

\* Dynamic dispatch of command.display(context): the calls.
display(ctx, object) ==
    IF object.state.kind = "marker"
    THEN MarkerDisplay(ctx, object.id, object.state)
    ELSE StickerDisplay(ctx, object.id, object.state)

\* Dynamic dispatch of command.display(context): the drawing state left.
displayed(ctx, object) ==
    IF object.state.kind = "marker"
    THEN MarkerDisplayed(ctx, object.state)
    ELSE StickerDisplayed(ctx, object.state)

\* ToolPreview.draw, the calls (tagged 0, the preview being no command): an
\* outline circle of radius thickness / 2 (both marker thicknesses are even)
\* at lineWidth 1, or the glyph at globalAlpha 0.65.
draw(ctx, preview) ==
    IF preview.kind = "markerPreview"
    THEN <<[op |-> "arc", by |-> 0, at |-> preview.point,
            radius |-> preview.thickness \div 2,
            lineWidth |-> 1, alpha |-> ctx.globalAlpha]>>
    ELSE <<[op |-> "fillText", by |-> 0, text |-> preview.emoji,
            at |-> preview.point, alpha |-> 65]>>

\* A preview whose draw lacks the restore().
drawn_unrestored(ctx, preview) ==
    IF preview.kind = "markerPreview"
    THEN [ctx EXCEPT !.lineWidth = 1]
    ELSE [ctx EXCEPT !.globalAlpha = 65]

\* ToolPreview.draw, the drawing state left: lineWidth or globalAlpha are
\* set between save() and restore().
drawn(ctx, preview) ==
    IF preview.kind = "markerPreview"
    THEN restore(save(ctx), [ctx EXCEPT !.lineWidth = 1])
    ELSE restore(save(ctx), [ctx EXCEPT !.globalAlpha = 65])

RECURSIVE displayedAll(_, _)
\* The drawing state after model.commands.forEach(display).
displayedAll(ctx, cs) ==
    IF cs = <<>> THEN ctx
    ELSE displayedAll(displayed(ctx, Head(cs)), Tail(cs))

RECURSIVE displayAll(_, _)
\* model.commands.forEach(command => command.display(context)): each
\* command paints under the drawing state the one before it left.
displayAll(ctx, cs) ==
    IF cs = <<>> THEN <<>>
    ELSE display(ctx, Head(cs)) \o displayAll(displayed(ctx, Head(cs)), Tail(cs))

\* A render that draws the preview under the commands.
render_previewFirst(ctx, cs, preview) ==
    <<clearRect>>
        \o (IF preview # NoPreview THEN draw(ctx, preview) ELSE <<>>)
        \o displayAll(ctx, cs)

\* A render that paints over what the surface shows.
render_unclearing(ctx, cs, preview) ==
    displayAll(ctx, cs)
        \o (IF preview # NoPreview
            THEN draw(displayedAll(ctx, cs), preview) ELSE <<>>)

\* The render listener, the calls of one run: clearRect, every command of
\* commands in array order, then the preview if there is one.
render(ctx, cs, preview) ==
    <<clearRect>>
        \o displayAll(ctx, cs)
        \o (IF preview # NoPreview
            THEN draw(displayedAll(ctx, cs), preview) ELSE <<>>)

\* The render listener, the drawing state one run leaves.
rendered(ctx, cs, preview) ==
    IF preview # NoPreview
    THEN drawn(displayedAll(ctx, cs), preview) ELSE displayedAll(ctx, cs)

\* The surface after the context executed calls: clearRect wipes it, every
\* other call paints over what is there.  So what shows is what was painted
\* after the last clearRect.
Paint(surface, calls) ==
    LET clears == {i \in DOMAIN calls : calls[i].op = "clearRect"}
    IN IF clears = {} THEN surface \o calls
       ELSE LET last == CHOOSE i \in clears : \A j \in clears : j <= i
            IN SubSeq(calls, last + 1, Len(calls))

\* canvas.dispatchEvent(new Event(type)) at a point of a handler where the
\* model holds cs and the preview state holds preview.
Dispatch(type, cs, preview) ==
    [type |-> type, commands |-> cs, preview |-> preview]

\* One run of render as the notification records it: the event type that
\* ran it, the calls it issued, the drawing state it left.
Note(type, calls, left) == [type |-> type, calls |-> calls, left |-> left]

RECURSIVE Deliver(_, _)
\* dispatchEvent is synchronous and render is the one listener of either
\* event type: each dispatch of a handler, in order, runs render at once on
\* what the model and the preview state hold then, under the drawing state
\* the render before it left.
Deliver(ctx, events) ==
    IF events = <<>> THEN <<>>
    ELSE LET first == Head(events)
             left == rendered(ctx, first.commands, first.preview)
         IN <<Note(first.type,
                   render(ctx, first.commands, first.preview), left)>>
            \o Deliver(left, Tail(events))

RECURSIVE PaintAll(_, _)
PaintAll(surface, notes) ==
    IF notes = <<>> THEN surface
    ELSE PaintAll(Paint(surface, Head(notes).calls), Tail(notes))

\* Bookkeeping of one handled event: its input (a canvas point, a tool, or
\* nothing), the renders its dispatches ran, the drawing state and the
\* surface they left.
Emitted(in, events) ==
    /\ input' = in
    /\ dispatched' = Deliver(context, events)
    /\ context' = IF dispatched' = <<>> THEN context
                  ELSE Last(dispatched').left
    /\ canvas' = PaintAll(canvas, dispatched')

\* The record kept of a gesture: whether commands was empty at its press,
\* the tool read by the press, the preview the press found and cleared, the
\* points of the press and of its moves.
Gesture(empty, tool, hint, points) ==
    [empty |-> empty, tool |-> tool, hint |-> hint, points |-> points]

(* ------------------------------- Init --------------------------------- *)

\* State at the end of main(): empty model, idle, thin marker selected by
\* the chooseTool call in attachToolSelector, no preview.  That call
\* dispatches before attachDrawingObserver adds the render listener, so
\* nothing has been drawn on the new canvas.
Init ==
    /\ commands = <<>>
    /\ redoStack = <<>>
    /\ created = 0
    /\ isDrawing = FALSE
    /\ activeTool = ThinTool
    /\ previewState = createToolPreviewState
    /\ buttons \in Sessions
    /\ lastEvent = Event("main", FALSE, 0, 0)
    /\ snap = <<>>
    /\ canvas = <<>>
    /\ context = getContext
    /\ dispatched = <<>>
    /\ input = <<>>
    /\ gesture = <<>>

(* --------------------------- enableDrawing ---------------------------- *)

\* A dispatch of startDrawing that comes before the preview is cleared.
startDrawingEmits_beforeClear(pushed) ==
    <<Dispatch(DRAWING_CHANGED_EVENT, pushed, previewState)>>

\* The notification of startDrawing, dispatched after the preview is cleared
\* and the command is pushed.
startDrawingEmits(pushed) ==
    <<Dispatch(DRAWING_CHANGED_EVENT, pushed, NoPreview)>>

\* A mousedown listener that returns when a gesture is under way.
startDrawing_guarded(event) ==
    LET firstPoint == toCanvasPoint(CanvasBounds, event)
        tool == activeTool
        command == IF tool.type = "marker"
                   THEN createMarkerLine(firstPoint, tool.thickness)
                   ELSE createStickerCommand(tool.emoji, firstPoint)
        pushed == push(commands, Object(created + 1, command))
    IN IF isDrawing
       THEN /\ Handled("mousedown", FALSE, 0, 0)
            /\ snap' = <<>>
            /\ Emitted(<<firstPoint>>, <<>>)
            /\ UNCHANGED <<commands, redoStack, created, isDrawing,
                           activeTool, previewState, buttons, gesture>>
       ELSE /\ created < MaxCmds
            /\ isDrawing' = TRUE
            /\ previewState' = NoPreview
            /\ redoStack' = truncate(redoStack)
            /\ created' = created + 1
            /\ commands' = pushed
            /\ Emitted(<<firstPoint>>, startDrawingEmits(pushed))
            /\ Handled("mousedown", FALSE, 0, Len(redoStack))
            /\ snap' = <<>>
            /\ gesture' = <<Gesture(commands = <<>>, tool, previewState,
                                  <<firstPoint>>)>>
            /\ UNCHANGED <<activeTool, buttons>>

\* mousedown listener.
startDrawing(event) ==
    LET firstPoint == toCanvasPoint(CanvasBounds, event)
        tool == activeTool
        command == IF tool.type = "marker"
                   THEN createMarkerLine(firstPoint, tool.thickness)
                   ELSE createStickerCommand(tool.emoji, firstPoint)
        pushed == push(commands, Object(created + 1, command))
    IN /\ created < MaxCmds
       /\ isDrawing' = TRUE
       /\ previewState' = NoPreview
       /\ redoStack' = truncate(redoStack)
       /\ created' = created + 1
       /\ commands' = pushed
       /\ Emitted(<<firstPoint>>, startDrawingEmits(pushed))
       /\ Handled("mousedown", FALSE, 0, Len(redoStack))
       /\ snap' = <<>>
       /\ gesture' = <<Gesture(commands = <<>>, tool, previewState,
                             <<firstPoint>>)>>
       /\ UNCHANGED <<activeTool, buttons>>

\* The index of model.commands[model.commands.length - 1]; at index 0 the
\* array read yields undefined.
currentStroke == Len(commands)

\* commands once continueStroke is through: currentStroke.drag(point.x,
\* point.y) changes the state of the object that commands ends with.
stroked(event) ==
    IF isDrawing /\ currentStroke # 0
    THEN LET point == toCanvasPoint(CanvasBounds, event)
         IN [commands EXCEPT
               ![currentStroke].state = drag(@, point.x, point.y)]
    ELSE commands

\* A continueStroke without the isDrawing check: every move drags the last
\* command.
continueStroke_unguarded(event) ==
    IF currentStroke = 0
    THEN /\ commands' = commands
         /\ Handled("mousemove", TRUE, 0, 0)
    ELSE /\ commands' =
                LET point == toCanvasPoint(CanvasBounds, event)
                IN [commands EXCEPT
                      ![currentStroke].state = drag(@, point.x, point.y)]
         /\ Handled("mousemove", FALSE, commands[currentStroke].id, 0)

\* First mousemove listener.  Calling drag on undefined raises a TypeError,
\* which ends this listener only.
continueStroke(event) ==
    IF ~isDrawing
    THEN /\ commands' = commands
         /\ Handled("mousemove", FALSE, 0, 0)
    ELSE IF currentStroke = 0
    THEN /\ commands' = commands
         /\ Handled("mousemove", TRUE, 0, 0)
    ELSE /\ commands' = stroked(event)
         /\ Handled("mousemove", FALSE, commands[currentStroke].id, 0)

\* A dispatch of continueStroke that comes before the drag.
continueStrokeEmits_beforeDrag(event) ==
    IF isDrawing /\ currentStroke # 0
    THEN <<Dispatch(DRAWING_CHANGED_EVENT, commands, previewState)>>
    ELSE <<>>

\* The notification of continueStroke, dispatched after the drag and before
\* the second mousemove listener runs.
continueStrokeEmits(event) ==
    IF isDrawing /\ currentStroke # 0
    THEN <<Dispatch(DRAWING_CHANGED_EVENT, stroked(event), previewState)>>
    ELSE <<>>

\* mouseup listener, and first mouseleave listener.
stopDrawing == isDrawing' = FALSE

(* -------------------------- attachToolPreview ------------------------- *)

\* A preview made for every move, drawing or not.
hovered_unguarded(event) ==
    LET point == toCanvasPoint(CanvasBounds, event)
        tool == activeTool
    IN IF tool.type = "marker"
       THEN createMarkerPreview(point, tool.thickness)
       ELSE createStickerPreview(tool.emoji, point)

\* previewState.active once updatePreview is through: null while drawing,
\* else the preview of the active tool at the pointer.
hovered(event) ==
    IF isDrawing
    THEN NoPreview
    ELSE LET point == toCanvasPoint(CanvasBounds, event)
             tool == activeTool
         IN IF tool.type = "marker"
            THEN createMarkerPreview(point, tool.thickness)
            ELSE createStickerPreview(tool.emoji, point)

\* Second mousemove listener.
updatePreview(event) == previewState' = hovered(event)

\* updatePreview dispatches on both of its paths, after continueStroke is
\* through.
updatePreviewEmits(event) ==
    <<Dispatch(TOOL_MOVED_EVENT, stroked(event), hovered(event))>>

\* Second mouseleave listener.
clearPreview == previewState' = NoPreview

\* A mouseleave that clears the preview without a notification.
clearPreviewEmits_none == <<>>

clearPreviewEmits == <<Dispatch(TOOL_MOVED_EVENT, commands, NoPreview)>>

(* ------------------------- attachToolSelector ------------------------- *)

\* A tool selection that leaves the preview of the tool selected before.
chooseTool_keepsPreview(tool) ==
    /\ activeTool' = tool
    /\ Handled("chooseTool", FALSE, 0, 0)
    /\ snap' = <<>>
    /\ gesture' = <<>>
    /\ UNCHANGED <<commands, redoStack, created, isDrawing, buttons,
                   previewState>>
    /\ Emitted(<<tool>>,
               <<Dispatch(TOOL_MOVED_EVENT, commands, previewState)>>)

\* A tool selection that announces itself as a change of the drawing.
chooseTool_drawingChanged(tool) ==
    /\ activeTool' = tool
    /\ previewState' = NoPreview
    /\ Handled("chooseTool", FALSE, 0, 0)
    /\ snap' = <<>>
    /\ gesture' = <<>>
    /\ UNCHANGED <<commands, redoStack, created, isDrawing, buttons>>
    /\ Emitted(<<tool>>,
               <<Dispatch(DRAWING_CHANGED_EVENT, commands, NoPreview)>>)

\* The click listener of a tool button: the tool becomes the active one, the
\* preview is cleared, and tool-moved is dispatched.
chooseTool(tool) ==
    /\ activeTool' = tool
    /\ previewState' = NoPreview
    /\ Handled("chooseTool", FALSE, 0, 0)
    /\ snap' = <<>>
    /\ gesture' = <<>>
    /\ UNCHANGED <<commands, redoStack, created, isDrawing, buttons>>
    /\ Emitted(<<tool>>, <<Dispatch(TOOL_MOVED_EVENT, commands, NoPreview)>>)

(* ------------------------- attachClearHandler ------------------------- *)

\* A clear handler that resets commands only.
clearClick_keepsRedo ==
    /\ commands' = truncate(commands)
    /\ Handled("clear", FALSE, 0, Len(commands))
    /\ snap' = <<>>
    /\ gesture' = <<>>
    /\ UNCHANGED <<redoStack, created, isDrawing, activeTool, previewState,
                   buttons>>
    /\ Emitted(<<>>,
               <<Dispatch(DRAWING_CHANGED_EVENT, truncate(commands),
                          previewState)>>)

clearClick ==
    /\ commands' = truncate(commands)
    /\ redoStack' = truncate(redoStack)
    /\ Handled("clear", FALSE, 0, Len(commands) + Len(redoStack))
    /\ snap' = <<>>
    /\ gesture' = <<>>
    /\ UNCHANGED <<created, isDrawing, activeTool, previewState, buttons>>
    /\ Emitted(<<>>,
               <<Dispatch(DRAWING_CHANGED_EVENT, truncate(commands),
                          previewState)>>)

(* ----------------------- attachUndoRedoHandlers ----------------------- *)

\* An undo handler that puts the undone command at the front of redoStack
\* (unshift in place of push).
undoClick_unshift ==
    /\ IF commands = <<>>
       THEN /\ UNCHANGED <<commands, redoStack>>
            /\ snap' = <<>>
       ELSE /\ commands' = popped(commands)
            /\ redoStack' = <<Last(commands)>> \o redoStack
            /\ snap' = <<Snapshot(Model(commands, redoStack), FALSE)>>
    /\ Handled("undo", FALSE, 0, 0)
    /\ gesture' = <<>>
    /\ UNCHANGED <<created, isDrawing, activeTool, previewState, buttons>>
    /\ Emitted(<<>>,
               IF commands # <<>>
               THEN <<Dispatch(DRAWING_CHANGED_EVENT, popped(commands),
                               previewState)>>
               ELSE <<>>)

\* snap remembers, until the next event that is not a redo, the model as it
\* was before an undo that moved a command, and whether a redo followed.
undoClick ==
    /\ IF commands = <<>>
       THEN /\ UNCHANGED <<commands, redoStack>>
            /\ snap' = <<>>
       ELSE /\ commands' = popped(commands)
            /\ redoStack' = push(redoStack, Last(commands))
            /\ snap' = <<Snapshot(Model(commands, redoStack), FALSE)>>
    /\ Handled("undo", FALSE, 0, 0)
    /\ gesture' = <<>>
    /\ UNCHANGED <<created, isDrawing, activeTool, previewState, buttons>>
    /\ Emitted(<<>>,
               IF commands # <<>>
               THEN <<Dispatch(DRAWING_CHANGED_EVENT, popped(commands),
                               previewState)>>
               ELSE <<>>)

\* A redo handler that restores the oldest undone command (shift in place of
\* pop).
redoClick_shift ==
    /\ IF redoStack = <<>>
       THEN UNCHANGED <<commands, redoStack>>
       ELSE /\ redoStack' = Tail(redoStack)
            /\ commands' = push(commands, Head(redoStack))
    /\ snap' = IF snap # <<>> /\ ~snap[1].redone
               THEN <<Snapshot(snap[1].before, TRUE)>> ELSE <<>>
    /\ Handled("redo", FALSE, 0, 0)
    /\ gesture' = <<>>
    /\ UNCHANGED <<created, isDrawing, activeTool, previewState, buttons>>
    /\ Emitted(<<>>,
               IF redoStack # <<>>
               THEN <<Dispatch(DRAWING_CHANGED_EVENT,
                               push(commands, Head(redoStack)), previewState)>>
               ELSE <<>>)

\* A redo handler without the early return: with nothing to restore it uses
\* the undefined it popped, which raises.
redoClick_unguarded ==
    /\ IF redoStack = <<>>
       THEN /\ UNCHANGED <<commands, redoStack>>
            /\ Handled("redo", TRUE, 0, 0)
       ELSE /\ redoStack' = popped(redoStack)
            /\ commands' = push(commands, Last(redoStack))
            /\ Handled("redo", FALSE, 0, 0)
    /\ snap' = IF snap # <<>> /\ ~snap[1].redone
               THEN <<Snapshot(snap[1].before, TRUE)>> ELSE <<>>
    /\ gesture' = <<>>
    /\ UNCHANGED <<created, isDrawing, activeTool, previewState, buttons>>
    /\ Emitted(<<>>,
               IF redoStack # <<>>
               THEN <<Dispatch(DRAWING_CHANGED_EVENT,
                               push(commands, Last(redoStack)), previewState)>>
               ELSE <<>>)

redoClick ==
    /\ IF redoStack = <<>>
       THEN UNCHANGED <<commands, redoStack>>
       ELSE /\ redoStack' = popped(redoStack)
            /\ commands' = push(commands, Last(redoStack))
    /\ snap' = IF snap # <<>> /\ ~snap[1].redone
               THEN <<Snapshot(snap[1].before, TRUE)>> ELSE <<>>
    /\ Handled("redo", FALSE, 0, 0)
    /\ gesture' = <<>>
    /\ UNCHANGED <<created, isDrawing, activeTool, previewState, buttons>>
    /\ Emitted(<<>>,
               IF redoStack # <<>>
               THEN <<Dispatch(DRAWING_CHANGED_EVENT,
                               push(commands, Last(redoStack)), previewState)>>
               ELSE <<>>)

(* --------------------------- event dispatch --------------------------- *)

MouseDown == \E event \in PressEvents : startDrawing(event)

\* Both mousemove listeners run, in registration order, for one event.  The
\* marker lines of the model hold at most limit dragged points.
Move(events, limit) ==
    \E event \in events :
        /\ (isDrawing /\ currentStroke # 0
                      /\ commands[currentStroke].state.kind = "marker")
              => Dragged(commands) + Dragged(redoStack) < limit
        /\ continueStroke(event)
        /\ updatePreview(event)
        /\ snap' = <<>>
        /\ gesture' = IF isDrawing /\ gesture # <<>>
                         /\ Len(gesture[1].points) <= limit
                      THEN <<[gesture[1] EXCEPT !.points =
                                Append(@, toCanvasPoint(CanvasBounds, event))]>>
                      ELSE <<>>
        /\ UNCHANGED <<redoStack, created, isDrawing, activeTool, buttons>>
        /\ Emitted(<<toCanvasPoint(CanvasBounds, event)>>,
                   continueStrokeEmits(event) \o updatePreviewEmits(event))

MouseMove == Move(MoveEvents, MaxDrags)

MouseUp ==
    /\ stopDrawing
    /\ Handled("mouseup", FALSE, 0, 0)
    /\ snap' = <<>>
    /\ UNCHANGED <<commands, redoStack, created, activeTool, previewState,
                   buttons, gesture>>
    /\ Emitted(<<>>, <<>>)

\* Both mouseleave listeners run for one event.
MouseLeave ==
    /\ stopDrawing
    /\ clearPreview
    /\ Handled("mouseleave", FALSE, 0, 0)
    /\ snap' = <<>>
    /\ UNCHANGED <<commands, redoStack, created, activeTool, buttons, gesture>>
    /\ Emitted(<<>>, clearPreviewEmits)

SelectTool == \E tool \in buttons : chooseTool(tool)

Next ==
    \/ MouseDown
    \/ MouseMove
    \/ MouseUp
    \/ MouseLeave
    \/ SelectTool
    \/ clearClick
    \/ undoClick
    \/ redoClick

Spec == Init /\ [][Next]_vars

(* ------------- appends followed by undos, and nothing else ------------ *)

\* Completed gestures on a model that nothing was undone from, then undos
\* while idle: press only when idle and before the first undo, undo only
\* when idle and with something to undo.
NextAppendUndo ==
    \/ redoStack = <<>> /\ ~isDrawing /\ MouseDown
    \/ redoStack = <<>> /\ MouseMove
    \/ redoStack = <<>> /\ MouseUp
    \/ redoStack = <<>> /\ MouseLeave
    \/ redoStack = <<>> /\ SelectTool
    \/ ~isDrawing /\ commands # <<>> /\ undoClick

SpecAppendUndo == Init /\ [][NextAppendUndo]_vars

(* ----------------- one gesture on an empty model --------------------- *)

\* A press while idle on a model that holds nothing, moves, a release; tool
\* selections at any time, and clear while idle to start over.
NextGesture ==
    \/ commands = <<>> /\ redoStack = <<>> /\ ~isDrawing /\ MouseDown
    \/ Move(GestureMoveEvents, MaxMoves)
    \/ MouseUp
    \/ SelectTool
    \/ ~isDrawing /\ clearClick

SpecGesture == Init /\ [][NextGesture]_vars

(* ---------------- the pointer over a model of one command ------------- *)

\* Every event of the program, with presses on a model that holds nothing
\* and moves to either of two points.
NextHover ==
    \/ commands = <<>> /\ redoStack = <<>> /\ MouseDown
    \/ Move(GestureMoveEvents, MaxMoves)
    \/ MouseUp
    \/ MouseLeave
    \/ SelectTool
    \/ clearClick
    \/ undoClick
    \/ redoClick

SpecHover == Init /\ [][NextHover]_vars

(* ------------------- presses without a release ----------------------- *)

\* The button is never released and the pointer never leaves the canvas:
\* from the first press on, every event is handled during a gesture.
NextNested ==
    \/ MouseDown
    \/ MouseMove
    \/ SelectTool
    \/ undoClick
    \/ redoClick

SpecNested == Init /\ [][NextNested]_vars

(* ------------------------------ claims -------------------------------- *)

\* Identities held by an array.
Ids(arr) == {arr[i].id : i \in DOMAIN arr}

\* C1: immediately after a press, redoStack is empty and the object the press
\* created (the one numbered `created`) is the last element of commands.
C1_PressClearsRedo ==
    lastEvent.op = "mousedown" =>
        /\ redoStack = <<>>
        /\ commands # <<>>
        /\ Last(commands).id = created

\* A press that dropped several undone commands.
C1_Witness == lastEvent.op = "mousedown" /\ lastEvent.dropped >= 2

\* C2: when an undo of command c is directly followed by a redo, commands and
\* redoStack are exactly as they were before the undo, and c (same identity,
\* same recorded state) is the last element of commands again.
C2_UndoRedoRoundTrip ==
    (snap # <<>> /\ snap[1].redone) =>
        /\ commands = snap[1].before.commands
        /\ redoStack = snap[1].before.redoStack
        /\ Last(commands) = Last(snap[1].before.commands)

\* A round trip of a dragged marker line, with other commands on both sides.
C2_Witness ==
    /\ lastEvent.op = "redo"
    /\ snap # <<>>
    /\ snap[1].redone
    /\ Len(commands) >= 2
    /\ redoStack # <<>>
    /\ Last(commands).state.kind = "marker"
    /\ Len(Last(commands).state.points) >= 2

\* C3: N completed gestures followed by N undos leave commands empty and
\* redoStack holding all N commands, the last created at the bottom and the
\* first created on top.
C3_AppendsThenUndos ==
    commands = <<>> =>
        /\ Len(redoStack) = created
        /\ \A i \in DOMAIN redoStack : redoStack[i].id = created - i + 1

\* Three gestures and three undos.
C3_Witness ==
    /\ lastEvent.op = "undo"
    /\ commands = <<>>
    /\ Len(redoStack) = 3

\* C4: an undo with commands non-empty removes exactly the last element of
\* commands and puts that object at the end of redoStack; everything else
\* keeps its position.
C4_UndoMovesLast ==
    [][(lastEvent'.op = "undo" /\ commands # <<>>) =>
          /\ commands' = Front(commands)
          /\ redoStack' = Append(redoStack, Last(commands))]_vars

\* An undo that left a command behind and added to a non-empty redoStack.
C4_Witness ==
    /\ lastEvent.op = "undo"
    /\ commands # <<>>
    /\ Len(redoStack) >= 2

\* C5: a redo with redoStack non-empty removes exactly the last element of
\* redoStack and puts that object at the end of commands; everything else
\* keeps its position.
C5_RedoMovesLast ==
    [][(lastEvent'.op = "redo" /\ redoStack # <<>>) =>
          /\ redoStack' = Front(redoStack)
          /\ commands' = Append(commands, Last(redoStack))]_vars

\* A redo that left an undone command behind and added to a non-empty
\* commands.
C5_Witness ==
    /\ lastEvent.op = "redo"
    /\ redoStack # <<>>
    /\ Len(commands) >= 2

\* C6: an undo with commands empty and a redo with redoStack empty change
\* nothing and raise nothing; an undo right after a clear leaves both arrays
\* empty.
C6_EmptyUndoRedoNoOp ==
    [][/\ ((lastEvent'.op = "undo" /\ commands = <<>>)
             \/ (lastEvent'.op = "redo" /\ redoStack = <<>>)) =>
              /\ UNCHANGED <<commands, redoStack, created, isDrawing,
                             activeTool, previewState>>
              /\ ~lastEvent'.threw
       /\ (lastEvent.op = "clear" /\ lastEvent'.op = "undo") =>
              /\ commands' = <<>>
              /\ redoStack' = <<>>]_vars

\* An undo on a model that a clear emptied, during a gesture.
C6_Witness ==
    /\ lastEvent.op = "undo"
    /\ commands = <<>>
    /\ redoStack = <<>>
    /\ created > 0
    /\ isDrawing

\* C7: immediately after a clear both commands and redoStack are empty.
C7_ClearEmptiesBoth ==
    lastEvent.op = "clear" => (commands = <<>> /\ redoStack = <<>>)

\* A clear during a gesture that dropped several commands.
C7_Witness ==
    /\ lastEvent.op = "clear"
    /\ isDrawing
    /\ lastEvent.dropped >= 2

\* C8: commands and redoStack share no object and neither holds an object
\* twice.
C8_NoSharedInstance ==
    Cardinality(Ids(commands) \cup Ids(redoStack))
        = Len(commands) + Len(redoStack)

\* Both arrays populated, during a gesture.
C8_Witness ==
    /\ commands # <<>>
    /\ Len(redoStack) >= 2
    /\ isDrawing

\* C9: a move that calls drag calls it on the command created by the press
\* that opened the gesture in progress, which is the latest created one.
C9_DragOnlyOpenGesture ==
    (lastEvent.op = "mousemove" /\ lastEvent.target # 0) =>
        (isDrawing /\ lastEvent.target = created)

\* C10: a move handled while drawing finds commands non-empty and raises
\* nothing.
C10_MoveFindsCurrentStroke ==
    (lastEvent.op = "mousemove" /\ isDrawing) =>
        (commands # <<>> /\ ~lastEvent.threw)

\* A painting call issued by the preview (commands tag theirs with their
\* identity, clearRect is no painting call).
IsPreviewCall(call) == call.op # "clearRect" /\ call.by = 0

\* The renders of the latest event that drew a preview.
PreviewFrames ==
    {i \in DOMAIN dispatched :
        \E k \in DOMAIN dispatched[i].calls :
            IsPreviewCall(dispatched[i].calls[k])}

\* C11: while isDrawing holds there is no preview; a mousemove handled while
\* drawing ran both listeners (continueStroke's drawing-changed, when it
\* found a command to drag, then updatePreview's tool-moved) and left the
\* preview cleared, so neither render drew one.
C11_NoPreviewWhileDrawing ==
    /\ isDrawing => previewState = NoPreview
    /\ (isDrawing /\ lastEvent.op = "mousemove") =>
          /\ dispatched # <<>>
          /\ Last(dispatched).type = TOOL_MOVED_EVENT
          /\ lastEvent.target # 0 =>
                /\ Len(dispatched) = 2
                /\ dispatched[1].type = DRAWING_CHANGED_EVENT
          /\ PreviewFrames = {}

\* A move that dragged the gesture's command, both listeners having run.
C11_Witness ==
    /\ isDrawing
    /\ lastEvent.op = "mousemove"
    /\ lastEvent.target = created
    /\ Len(dispatched) = 2
    /\ previewState = NoPreview

\* C12: every render, whichever of the two notifications ran it, issued one
\* clearRect first, then the call of each command of commands in array
\* order, then the preview's call, last, exactly when there is a preview;
\* no call comes from an object held by redoStack.
C12_RenderOrder ==
    \A n \in DOMAIN dispatched :
        LET calls == dispatched[n].calls
            painted == Tail(calls)
        IN /\ dispatched[n].type \in {DRAWING_CHANGED_EVENT, TOOL_MOVED_EVENT}
           /\ calls[1] = clearRect
           /\ \A k \in DOMAIN painted : painted[k] # clearRect
           /\ Len(painted) \in {Len(commands), Len(commands) + 1}
           /\ \A i \in DOMAIN commands :
                  <<painted[i]>> = display(context, commands[i])
           /\ Len(painted) = Len(commands) + 1 => IsPreviewCall(Last(painted))
           /\ n = Len(dispatched) =>
                 IF previewState = NoPreview
                 THEN Len(painted) = Len(commands)
                 ELSE /\ Len(painted) = Len(commands) + 1
                      /\ <<Last(painted)>> = draw(context, previewState)
           /\ \A k \in DOMAIN painted : painted[k].by \notin Ids(redoStack)

\* A tool-moved render of two commands under a preview, with an undone
\* command in redoStack.
C12_Witness ==
    /\ dispatched # <<>>
    /\ Last(dispatched).type = TOOL_MOVED_EVENT
    /\ Len(commands) >= 2
    /\ redoStack # <<>>
    /\ previewState # NoPreview
    /\ Len(Last(dispatched).calls) = Len(commands) + 2

\* C13: renders with no change of commands or of the preview between them
\* issue the same calls and leave the same surface: the two renders of one
\* mousemove when the preview stayed as it was, and the renders of an event
\* that left both as the event before had rendered them.  An event that
\* does nothing but render (a leave while idle and without preview) changes
\* neither array, nor the preview, the tool or isDrawing.
C13_RenderIdempotent ==
    [][/\ (Len(dispatched') = 2 /\ previewState' = previewState) =>
              dispatched'[1].calls = dispatched'[2].calls
       /\ (/\ dispatched' # <<>>
           /\ commands' = commands
           /\ previewState' = previewState) =>
              /\ canvas' = canvas
              /\ dispatched # <<>> =>
                    \A n \in DOMAIN dispatched' :
                        dispatched'[n].calls = Last(dispatched).calls
       /\ (/\ lastEvent'.op = "mouseleave"
           /\ ~isDrawing
           /\ previewState = NoPreview) =>
              UNCHANGED <<commands, redoStack, previewState, activeTool,
                          isDrawing>>]_vars

\* Two renders of one move, the second repeating the first: two commands,
\* a sticker among them, dragged to where it already was.
C13_Witness ==
    /\ Len(dispatched) = 2
    /\ dispatched[1].calls = dispatched[2].calls
    /\ Len(commands) >= 2
    /\ Last(commands).state.kind = "sticker"
    /\ Len(canvas) = Len(commands)

\* C14: after the release of a gesture made with a marker tool on a model
\* whose commands was empty at the press, commands holds exactly one object,
\* the marker line the press created, whose points are the point of the
\* press followed by the points of the moves in the order they came, with
\* the thickness of the tool; redoStack is empty.
C14_GestureRecordsPoints ==
    (/\ lastEvent.op = "mouseup"
     /\ gesture # <<>>
     /\ gesture[1].empty
     /\ gesture[1].tool.type = "marker") =>
        /\ Len(commands) = 1
        /\ commands[1].id = created
        /\ commands[1].state.kind = "marker"
        /\ commands[1].state.points = gesture[1].points
        /\ commands[1].state.thickness = gesture[1].tool.thickness
        /\ redoStack = <<>>

\* Press at (10,10), move to (20,10), move to (20,20), release.
C14_Witness ==
    /\ lastEvent.op = "mouseup"
    /\ gesture # <<>>
    /\ gesture[1].tool.type = "marker"
    /\ gesture[1].points = <<[x |-> 10, y |-> 10], [x |-> 20, y |-> 10],
                             [x |-> 20, y |-> 20]>>
    /\ Len(commands) = 1
    /\ commands[1].state.points = gesture[1].points

\* C15: after a press with a sticker tool on empty commands and a release
\* with no move in between, commands holds one sticker with the glyph of the
\* tool at the point of the press; the surface shows that glyph once, at
\* that point, opaque, and nothing else (no preview, and nothing where the
\* preview was before the press); a further render leaves the surface so.
C15_StickerPlacedOnce ==
    (/\ lastEvent.op = "mouseup"
     /\ gesture # <<>>
     /\ gesture[1].empty
     /\ gesture[1].tool.type = "sticker"
     /\ Len(gesture[1].points) = 1) =>
        LET glyph == gesture[1].tool.emoji
            point == gesture[1].points[1]
            once == <<[op |-> "fillText", by |-> created, text |-> glyph,
                       at |-> point, alpha |-> 100]>>
        IN /\ Len(commands) = 1
           /\ commands[1].id = created
           /\ commands[1].state =
                  [kind |-> "sticker", emoji |-> glyph, current |-> point]
           /\ canvas = once
           /\ Paint(canvas, render(context, commands, previewState)) = once

\* The star placed at (10,10) by press and release, a preview having been
\* shown elsewhere before the press.
C15_Witness ==
    /\ lastEvent.op = "mouseup"
    /\ gesture # <<>>
    /\ gesture[1].empty
    /\ gesture[1].tool = [type |-> "sticker", emoji |-> "star"]
    /\ gesture[1].points = <<[x |-> 10, y |-> 10]>>
    /\ gesture[1].hint # NoPreview
    /\ gesture[1].hint.point # gesture[1].points[1]
    /\ Len(canvas) = 1

\* C16: a move handled while idle with a marker tool leaves as preview the
\* marker outline of the tool's thickness at the point of the move, and the
\* render of that move draws it last; the one render of a press shows the
\* command the press appended and no preview, the preview being cleared
\* before the command is pushed and the notification dispatched.
C16_PressClearsPreviewFirst ==
    /\ (lastEvent.op = "mousemove" /\ ~isDrawing
                                   /\ activeTool.type = "marker") =>
          /\ previewState = createMarkerPreview(input[1], activeTool.thickness)
          /\ Len(dispatched) = 1
          /\ Last(dispatched[1].calls) =
                 [op |-> "arc", by |-> 0, at |-> input[1],
                  radius |-> activeTool.thickness \div 2,
                  lineWidth |-> 1, alpha |-> 100]
    /\ lastEvent.op = "mousedown" =>
          /\ previewState = NoPreview
          /\ Len(dispatched) = 1
          /\ dispatched[1].type = DRAWING_CHANGED_EVENT
          /\ Last(dispatched[1].calls).by = created
          /\ PreviewFrames = {}

\* A press that found the outline of the thick marker at (20,10).
C16_Witness ==
    /\ lastEvent.op = "mousedown"
    /\ gesture # <<>>
    /\ gesture[1].hint =
           createMarkerPreview([x |-> 20, y |-> 10], THICK_MARKER_THICKNESS)
    /\ previewState = NoPreview
    /\ Len(dispatched[1].calls) = Len(commands) + 1

\* C17: a tool selection, in any state, makes the selected tool the active
\* one, clears the preview, and dispatches one tool-moved notification and no
\* drawing-changed one, whose render shows commands without a preview;
\* commands, redoStack (and with them the state of every command), isDrawing
\* and the number of commands created stay as they were.
C17_ChooseToolFrame ==
    [][lastEvent'.op = "chooseTool" =>
          /\ activeTool' = input'[1]
          /\ activeTool' \in buttons
          /\ previewState' = NoPreview
          /\ Len(dispatched') = 1
          /\ dispatched'[1].type = TOOL_MOVED_EVENT
          /\ dispatched'[1].calls = render(context, commands, NoPreview)
          /\ commands' = commands
          /\ redoStack' = redoStack
          /\ isDrawing' = isDrawing
          /\ created' = created]_vars

\* A selection of the star sticker made during a gesture, with commands and
\* redoStack both holding something.
C17_Witness ==
    /\ lastEvent.op = "chooseTool"
    /\ activeTool = [type |-> "sticker", emoji |-> "star"]
    /\ isDrawing
    /\ commands # <<>>
    /\ redoStack # <<>>
    /\ previewState = NoPreview
    /\ Len(dispatched) = 1
    /\ dispatched[1].type = TOOL_MOVED_EVENT

\* The types of the notifications dispatched by the latest event, in order.
Types(notes) == [n \in DOMAIN notes |-> notes[n].type]

\* C18: a step that changes commands or redoStack dispatches drawing-changed
\* first, and the render of it shows commands as the step leaves them; a
\* press, a move that drags, an undo with something to undo, a redo with
\* something to redo and a clear dispatch drawing-changed; a move (idle or
\* not), a leave and a tool selection dispatch tool-moved last; a step that
\* changes the preview ends with a render of the preview as the step leaves
\* it; every notification is rendered once, starting with one clearRect.
C18_ChangesAreNotified ==
    [][LET notes == dispatched'
           op == lastEvent'.op
           frame == render(context, commands', previewState')
       IN /\ (commands' # commands \/ redoStack' # redoStack) =>
                /\ notes # <<>>
                /\ notes[1].type = DRAWING_CHANGED_EVENT
                /\ notes[1].calls = frame
          /\ op = "mousedown" => Types(notes) = <<DRAWING_CHANGED_EVENT>>
          /\ (op = "mousemove" /\ isDrawing /\ ~lastEvent'.threw) =>
                Types(notes) = <<DRAWING_CHANGED_EVENT, TOOL_MOVED_EVENT>>
          /\ (op = "undo" /\ commands # <<>>) =>
                Types(notes) = <<DRAWING_CHANGED_EVENT>>
          /\ (op = "redo" /\ redoStack # <<>>) =>
                Types(notes) = <<DRAWING_CHANGED_EVENT>>
          /\ op = "clear" => Types(notes) = <<DRAWING_CHANGED_EVENT>>
          /\ (op = "mousemove" /\ ~isDrawing) =>
                Types(notes) = <<TOOL_MOVED_EVENT>>
          /\ op \in {"mouseleave", "chooseTool"} =>
                Types(notes) = <<TOOL_MOVED_EVENT>>
          /\ previewState' # previewState =>
                /\ notes # <<>>
                /\ Last(notes).calls = frame
          /\ \A n \in DOMAIN notes :
                /\ notes[n].calls[1] = clearRect
                /\ \A k \in 2..Len(notes[n].calls) :
                       notes[n].calls[k] # clearRect
                /\ notes[n].type = TOOL_MOVED_EVENT =>
                       /\ n = Len(notes)
                       /\ notes[n].calls = frame]_vars

\* A move that dragged the line of the gesture: two notifications, and the
\* render of the first already shows the dragged point.
C18_Witness ==
    /\ lastEvent.op = "mousemove"
    /\ lastEvent.target = created
    /\ isDrawing
    /\ Types(dispatched) = <<DRAWING_CHANGED_EVENT, TOOL_MOVED_EVENT>>
    /\ Last(commands).state.kind = "marker"
    /\ Last(Last(commands).state.points) = input[1]
    /\ Last(dispatched[1].calls).by = created
    /\ Last(Last(dispatched[1].calls).path) = input[1]

\* C19: after every event the surface shows the rendering of the model as it
\* is: commands in order, then the preview if there is one.  The renders of
\* one event come in the order of their dispatch, drawing-changed of the
\* first mousemove listener before tool-moved of the second, and the last
\* of them is the rendering of the state the event leaves.
C19_SurfaceNeverStale ==
    /\ canvas = Paint(<<>>, render(context, commands, previewState))
    /\ dispatched # <<>> =>
          Last(dispatched).calls = render(context, commands, previewState)
    /\ Len(dispatched) <= 2
    /\ Len(dispatched) = 2 =>
          Types(dispatched) = <<DRAWING_CHANGED_EVENT, TOOL_MOVED_EVENT>>

\* A leave with two commands left, the second a sticker, and something
\* undone: the surface ends with that sticker, and shows no preview.
C19_Witness ==
    /\ lastEvent.op = "mouseleave"
    /\ Len(commands) = 2
    /\ redoStack # <<>>
    /\ commands[2].state.kind = "sticker"
    /\ canvas # <<>>
    /\ Last(canvas).by = commands[2].id
    /\ previewState = NoPreview

\* C20: a release or a leave handled while isDrawing holds ends the gesture
\* and changes nothing else (commands, redoStack, the state of every
\* command, the preview, the active tool), and the command the gesture
\* created, the latest one created, is the last element of commands.
C20_ReleaseKeepsGestureCommand ==
    [][(isDrawing /\ lastEvent'.op \in {"mouseup", "mouseleave"}) =>
          /\ ~isDrawing'
          /\ commands' = commands
          /\ redoStack' = redoStack
          /\ previewState' = previewState
          /\ activeTool' = activeTool
          /\ created' = created
          /\ commands' # <<>>
          /\ Last(commands').id = created]_vars

\* C21: a move handled while isDrawing is false changes neither commands nor
\* redoStack (so no command's state), leaves isDrawing false, the active
\* tool and the count of created commands as they were, calls drag on
\* nothing, and sets the preview to the one made from the active tool and
\* the point of the move.
C21_IdleMoveFrame ==
    [][(lastEvent'.op = "mousemove" /\ ~isDrawing) =>
          /\ commands' = commands
          /\ redoStack' = redoStack
          /\ ~isDrawing'
          /\ activeTool' = activeTool
          /\ created' = created
          /\ lastEvent'.target = 0
          /\ ~lastEvent'.threw
          /\ previewState' =
                 IF activeTool.type = "marker"
                 THEN createMarkerPreview(input'[1], activeTool.thickness)
                 ELSE createStickerPreview(activeTool.emoji, input'[1])]_vars

\* An idle move with the star sticker selected, over a model that holds
\* a dragged marker line and an undone command.
C21_Witness ==
    /\ lastEvent.op = "mousemove"
    /\ ~isDrawing
    /\ commands # <<>>
    /\ Last(commands).state.kind = "marker"
    /\ Len(Last(commands).state.points) = 2
    /\ redoStack # <<>>
    /\ previewState = createStickerPreview("star", [x |-> 20, y |-> 10])

\* C22: the state every step leaves has no preview or the preview made from
\* the tool that is active in it (marker preview of its thickness, sticker
\* preview of its glyph); a mousemove leaves no preview or the one at the
\* point of that move, any other event leaves no preview or the preview that
\* was there; a press, a leave and a tool selection leave no preview.
C22_PreviewOfActiveTool ==
    [][LET made(point) ==
               IF activeTool'.type = "marker"
               THEN createMarkerPreview(point, activeTool'.thickness)
               ELSE createStickerPreview(activeTool'.emoji, point)
           points == {toCanvasPoint(CanvasBounds, e) : e \in GestureMoveEvents}
       IN /\ previewState' \in {NoPreview} \cup {made(point) : point \in points}
          /\ lastEvent'.op = "mousemove" =>
                previewState' \in {NoPreview, made(input'[1])}
          /\ lastEvent'.op # "mousemove" =>
                previewState' \in {NoPreview, previewState}
          /\ lastEvent'.op \in {"mousedown", "mouseleave", "chooseTool"} =>
                previewState' = NoPreview]_vars

\* The thick marker, selected after the start, hovering at (20,20) over a
\* command.
C22_Witness ==
    /\ lastEvent.op = "mousemove"
    /\ activeTool = ThickTool
    /\ previewState =
           createMarkerPreview([x |-> 20, y |-> 20], THICK_MARKER_THICKNESS)
    /\ commands # <<>>

\* C23: commands is in the order of creation; redoStack holds the undone
\* commands with the most recently undone, which is the oldest of them,
\* last; every command in redoStack was created after every command in
\* commands; commands followed by redoStack reversed is in strictly
\* increasing order of creation.
C23_HistoryInCreationOrder ==
    LET n == Len(commands)
        m == Len(redoStack)
        order == [i \in 1..(n + m) |->
                    IF i <= n THEN commands[i].id
                    ELSE redoStack[m - (i - n) + 1].id]
    IN /\ \A i, j \in 1..n : i < j => commands[i].id < commands[j].id
       /\ \A i, j \in 1..m : i < j => redoStack[i].id > redoStack[j].id
       /\ \A i \in 1..n : \A j \in 1..m : commands[i].id < redoStack[j].id
       /\ \A i, j \in 1..(n + m) : i < j => order[i] < order[j]
       /\ \A i \in 1..(n + m) : order[i] \in 1..created

\* Three commands created and two undone: the first is left, the third was
\* undone first and the second last.
C23_Witness ==
    /\ lastEvent.op = "undo"
    /\ Len(commands) = 1
    /\ commands[1].id = 1
    /\ Len(redoStack) = 2
    /\ redoStack[1].id = 3
    /\ redoStack[2].id = 2
    /\ snap # <<>>

\* The objects an array of the model refers to.
Objects(arr) == {arr[i] : i \in DOMAIN arr}

\* C24: a marker line created by a press holds the point of the press and
\* the thickness of the marker active at the press; every marker line the
\* model holds has at least one point; from one state to the next a marker
\* line that stays in the model, in commands or in redoStack, keeps its
\* thickness and its recorded points, in order, as the beginning of its
\* points, whatever tool is selected.
C24_MarkerLineGrowsOnly ==
    [][LET before == Objects(commands) \cup Objects(redoStack)
           after == Objects(commands') \cup Objects(redoStack')
       IN /\ \A new \in after :
                new.state.kind = "marker" =>
                   /\ Len(new.state.points) >= 1
                   /\ new.id > created =>
                         /\ lastEvent'.op = "mousedown"
                         /\ activeTool.type = "marker"
                         /\ new.state.thickness = activeTool.thickness
                         /\ new.state.points = input'
                   /\ \A old \in before :
                         old.id = new.id =>
                            /\ old.state.kind = "marker"
                            /\ new.state.thickness = old.state.thickness
                            /\ Len(new.state.points) >= Len(old.state.points)
                            /\ SubSeq(new.state.points, 1,
                                      Len(old.state.points)) = old.state.points
          /\ \A old \in before :
                old.state.kind = "marker" =>
                   \A new \in after :
                      new.id = old.id => new.state.kind = "marker"]_vars

\* A thin line of two points, undone and restored, with the thick marker
\* selected since.
C24_Witness ==
    /\ lastEvent.op = "redo"
    /\ commands # <<>>
    /\ Last(commands).state.kind = "marker"
    /\ Last(commands).state.thickness = THIN_MARKER_THICKNESS
    /\ Last(commands).state.points =
           <<[x |-> 10, y |-> 10], [x |-> 20, y |-> 10]>>
    /\ activeTool = ThickTool

\* The calls among calls that the display of command id made.
By(calls, id) ==
    LET made(call) == call.by = id
    IN SelectSeq(calls, made)

\* C25: a release that ends a sticker gesture of a press and at least one
\* move leaves the sticker last in commands, with the glyph of the tool of
\* the press and the point of the last move as its position; the surface,
\* and a render of that state, show of this sticker one fillText of the
\* glyph at that point and nothing at the earlier points.  From one state to
\* the next a sticker keeps its glyph, and a new sticker has the glyph of
\* the tool active at its press.
C25_StickerFollowsPointer ==
    [][LET before == Objects(commands) \cup Objects(redoStack)
           after == Objects(commands') \cup Objects(redoStack')
       IN /\ (/\ lastEvent'.op = "mouseup"
              /\ gesture' # <<>>
              /\ gesture'[1].tool.type = "sticker"
              /\ Len(gesture'[1].points) >= 2) =>
                LET glyph == gesture'[1].tool.emoji
                    pk == Last(gesture'[1].points)
                    once == <<[op |-> "fillText", by |-> created',
                               text |-> glyph, at |-> pk, alpha |-> 100]>>
                IN /\ commands' # <<>>
                   /\ Last(commands') =
                          Object(created', [kind |-> "sticker",
                                            emoji |-> glyph, current |-> pk])
                   /\ By(canvas', created') = once
                   /\ By(Paint(canvas', render(context', commands',
                                               previewState')),
                         created') = once
          /\ \A new \in after :
                new.state.kind = "sticker" =>
                   /\ new.id > created =>
                         /\ activeTool.type = "sticker"
                         /\ new.state.emoji = activeTool.emoji
                   /\ \A old \in before :
                         old.id = new.id =>
                            /\ old.state.kind = "sticker"
                            /\ new.state.emoji = old.state.emoji]_vars

\* The star pressed at (10,10), moved to (20,10) and to (20,20), released:
\* one star on the surface, at (20,20).
C25_Witness ==
    /\ lastEvent.op = "mouseup"
    /\ gesture # <<>>
    /\ gesture[1].tool = [type |-> "sticker", emoji |-> "star"]
    /\ gesture[1].points =
           <<[x |-> 10, y |-> 10], [x |-> 20, y |-> 10], [x |-> 20, y |-> 20]>>
    /\ canvas = <<[op |-> "fillText", by |-> created, text |-> "star",
                   at |-> [x |-> 20, y |-> 20], alpha |-> 100]>>

\* C26: the surface shows, of every marker line in commands, one stroke of
\* the line's thickness: for a line of one point p a path from p to p, for a
\* line of more points the path through its points in recorded order.
C26_MarkerLinePainted ==
    \A i \in DOMAIN commands :
        commands[i].state.kind = "marker" =>
            LET line == commands[i].state
                strokes == By(canvas, commands[i].id)
            IN /\ Len(strokes) = 1
               /\ strokes[1].op = "stroke"
               /\ strokes[1].lineWidth = line.thickness
               /\ Len(line.points) = 1 =>
                     strokes[1].path = <<line.points[1], line.points[1]>>
               /\ Len(line.points) > 1 => strokes[1].path = line.points

\* A dot at (10,10) under a line from (10,10) to (20,10) that a second
\* move to (20,10) extended.
C26_Witness ==
    /\ Len(commands) = 2
    /\ commands[1].state.kind = "marker"
    /\ commands[1].state.points = <<[x |-> 10, y |-> 10]>>
    /\ commands[2].state.kind = "marker"
    /\ Len(commands[2].state.points) = 3
    /\ Len(canvas) = 2
    /\ canvas[1].path = <<[x |-> 10, y |-> 10], [x |-> 10, y |-> 10]>>
    /\ canvas[2].path =
           <<[x |-> 10, y |-> 10], [x |-> 20, y |-> 10], [x |-> 20, y |-> 10]>>

\* C27: a press handled while isDrawing holds appends a new command, made
\* from the active tool at the point of the press, empties redoStack and
\* leaves isDrawing true; a move handled after it, with no other event than
\* moves in between, calls drag on that newest command only: the commands
\* before it, the one of the earlier press among them, stay as they were.
C27_PressWhileDrawing ==
    [][/\ (lastEvent'.op = "mousedown" /\ isDrawing) =>
             /\ isDrawing'
             /\ redoStack' = <<>>
             /\ created' = created + 1
             /\ commands' =
                    Append(commands,
                           Object(created',
                                  IF activeTool.type = "marker"
                                  THEN createMarkerLine(input'[1],
                                                        activeTool.thickness)
                                  ELSE createStickerCommand(activeTool.emoji,
                                                            input'[1])))
       /\ (lastEvent'.op = "mousemove" /\ isDrawing /\ gesture # <<>>) =>
             /\ isDrawing'
             /\ lastEvent'.target = created
             /\ Len(commands') = Len(commands)
             /\ Front(commands') = Front(commands)
             /\ Last(commands').id = created
             /\ Last(commands').state =
                    drag(Last(commands).state, input'[1].x, input'[1].y)
             /\ redoStack' = redoStack]_vars

\* Two presses and a move: the line of the first press has its one point,
\* the line of the second has two.
C27_Witness ==
    /\ isDrawing
    /\ lastEvent.op = "mousemove"
    /\ lastEvent.target = 2
    /\ Len(commands) = 2
    /\ commands[1].id = 1
    /\ commands[1].state.kind = "marker"
    /\ commands[1].state.points = <<[x |-> 10, y |-> 10]>>
    /\ commands[2].id = 2
    /\ commands[2].state.kind = "marker"
    /\ commands[2].state.points = <<[x |-> 10, y |-> 10], [x |-> 20, y |-> 10]>>
    /\ redoStack = <<>>

====
